---- MODULE Spec2Model ----
(***************************************************************************)
(* Model of ollama_client.js: the command-line front end (argument         *)
(* parsing, readFilesCombined, prompt precedence, the HTTP request), the   *)
(* slide-deck extractor extractTextFromPptx, and the streaming response    *)
(* loop of callStream.                                                     *)
(*                                                                         *)
(* Text is modelled as a sequence of atoms.  An atom is a run of bytes     *)
(* that the code never looks inside (a flag such as "--file", a file stem, *)
(* one half of a JSON object) or a single character the code does look at  *)
(* (a space, a newline, a decimal digit).                                  *)
(***************************************************************************)
EXTENDS Integers, Sequences, FiniteSets, TLC

MaxStreamLen == 5
MaxFairStreamLen == 3
MaxFiles == 2
MaxMembers == 3

VARIABLES
    stream,        \* callStream: the bytes the response body will deliver
    pos,           \* callStream: how many atoms of stream have been delivered
    chunks,        \* callStream: the chunks delivered so far, in order
    dstate,        \* callStream: "fetch", "decoding", "done", "ended", "failed"
    args,          \* main: process.argv.slice(2)
    pc,            \* main: position of the async main function
    idx,           \* readFilesCombined: 1-based index of the file in the loop
    parts,         \* readFilesCombined: parts
    log,           \* readFilesCombined: existence checks and extractions started/finished
    combinedText,  \* main: combinedText
    request,       \* main: the body of the POST issued by fetch, or NoRequest
    members,       \* extractTextFromPptx: dir.files of the archive, in archive order
    slides,        \* extractTextFromPptx: slides, the filtered and sorted members
    pptxOut,       \* extractTextFromPptx: the returned text, or NoText
    out,           \* the process.stdout.write calls so far
    errs,          \* the console.error calls so far (their kind)
    exitCode       \* the process.exit code, or NoExit while running / on normal return

streamVars == <<stream, pos, chunks, dstate>>
mainVars == <<args, pc, idx, parts, log, combinedText, request>>
pptxVars == <<members, slides, pptxOut>>
ioVars == <<out, errs, exitCode>>
vars == <<stream, pos, chunks, dstate, args, pc, idx, parts, log, combinedText,
          request, members, slides, pptxOut, out, errs, exitCode>>

NoExit == "none"
ExitFailure == "1"     \* process.exit(1)
NoRequest == [sent |-> FALSE]
NoText == <<"(not returned)">>

\* ---------------------------------------------------------------- strings

NL == "\n"
SP == " "
Whitespace == {NL, SP}

\* String.prototype.trim
RECURSIVE TrimLeft(_)
TrimLeft(s) ==
    IF s # <<>> /\ Head(s) \in Whitespace THEN TrimLeft(Tail(s)) ELSE s

RECURSIVE TrimRight(_)
TrimRight(s) ==
    IF s # <<>> /\ s[Len(s)] \in Whitespace
    THEN TrimRight(SubSeq(s, 1, Len(s) - 1))
    ELSE s

Trim(s) == TrimRight(TrimLeft(s))

\* String.prototype.split(sep) for a one-character separator
RECURSIVE SplitAcc(_, _, _)
SplitAcc(s, sep, cur) ==
    IF s = <<>> THEN <<cur>>
    ELSE IF Head(s) = sep THEN <<cur>> \o SplitAcc(Tail(s), sep, <<>>)
    ELSE SplitAcc(Tail(s), sep, Append(cur, Head(s)))

Split(s, sep) == SplitAcc(s, sep, <<>>)

\* Array.prototype.filter(Boolean) on an array of strings: drops the empty ones
RECURSIVE FilterBoolean(_)
FilterBoolean(ss) ==
    IF ss = <<>> THEN <<>>
    ELSE IF Head(ss) = <<>> THEN FilterBoolean(Tail(ss))
    ELSE <<Head(ss)>> \o FilterBoolean(Tail(ss))

\* Array.prototype.join(sep)
RECURSIVE Join(_, _)
Join(ss, sep) ==
    IF ss = <<>> THEN <<>>
    ELSE IF Len(ss) = 1 THEN Head(ss)
    ELSE Head(ss) \o sep \o Join(Tail(ss), sep)

\* ---------------------------------------------------------------- callStream

\* The byte runs a response body is made of.  A JSON object of the protocol
\* is a head (the text up to and including the response value) followed by a
\* tail (the done field and the closing brace):
\*   "Ha" = {"response":"a"     "H0" = {"response":""
\*   "Tf" = ,"done":false}      "Tt" = ,"done":true}
Heads == {"Ha", "H0"}
Tails == {"Tf", "Tt"}
StreamAtoms == Heads \cup Tails \cup {NL}

ResponseOf(h) == IF h = "Ha" THEN "a" ELSE ""

\* JSON.parse(line): ok = FALSE stands for the SyntaxError
ParseJSON(line) ==
    IF Len(line) = 2 /\ line[1] \in Heads /\ line[2] \in Tails
    THEN [ok |-> TRUE, response |-> ResponseOf(line[1]), done |-> line[2] = "Tt"]
    ELSE [ok |-> FALSE, response |-> "", done |-> FALSE]

\* The body of the inner for loop mutated: the loop goes on after a done event
RECURSIVE ProcessLinesNoReturn(_, _)
ProcessLinesNoReturn(lines, o) ==
    IF lines = <<>> THEN [out |-> o, done |-> FALSE]
    ELSE LET obj == ParseJSON(Head(lines))
             o1 == IF obj.ok /\ obj.response # "" THEN Append(o, obj.response) ELSE o
             o2 == IF obj.ok /\ obj.done THEN Append(o1, NL) ELSE o1
             rest == ProcessLinesNoReturn(Tail(lines), o2)
         IN [out |-> rest.out, done |-> rest.done \/ (obj.ok /\ obj.done)]

\* The body of the inner for loop mutated: a line that fails to parse ends the loop
RECURSIVE ProcessLinesStopOnError(_, _)
ProcessLinesStopOnError(lines, o) ==
    IF lines = <<>> THEN [out |-> o, done |-> FALSE]
    ELSE LET obj == ParseJSON(Head(lines))
             o1 == IF obj.ok /\ obj.response # "" THEN Append(o, obj.response) ELSE o
         IN IF ~obj.ok THEN [out |-> o, done |-> FALSE]
            ELSE IF obj.done THEN [out |-> Append(o1, NL), done |-> TRUE]
            ELSE ProcessLinesStopOnError(Tail(lines), o1)

\* The inner for loop over the lines of one chunk: writes obj.response when it
\* is truthy, and on obj.done writes the newline and returns from callStream
RECURSIVE ProcessLines(_, _)
ProcessLines(lines, o) ==
    IF lines = <<>> THEN [out |-> o, done |-> FALSE]
    ELSE LET obj == ParseJSON(Head(lines))
             o1 == IF obj.ok /\ obj.response # "" THEN Append(o, obj.response) ELSE o
         IN IF obj.ok /\ obj.done
            THEN [out |-> Append(o1, NL), done |-> TRUE]
            ELSE ProcessLines(Tail(lines), o1)

\* chunk.toString('utf8').trim() then text.split('\n').filter(Boolean).
\* chunk.toString('utf8') is taken to yield the text of the chunk, as it does
\* for a Buffer.
ChunkLines(chunk) == FilterBoolean(Split(Trim(chunk), NL))

\* One iteration of the for-await loop on the given chunk
HandleChunk(chunk, o) ==
    IF Trim(chunk) = <<>> THEN [out |-> o, done |-> FALSE]
    ELSE ProcessLines(ChunkLines(chunk), o)

Streams(maxLen) == UNION {[1..n -> StreamAtoms] : n \in 1..maxLen}

InitStreamOf(maxLen) ==
    /\ stream \in Streams(maxLen)
    /\ pos = 0
    /\ chunks = <<>>
    /\ dstate = "fetch"
    /\ args = <<>> /\ pc = "idle" /\ idx = 1 /\ parts = <<>> /\ log = <<>>
    /\ combinedText = <<>> /\ request = NoRequest
    /\ members = <<>> /\ slides = <<>> /\ pptxOut = NoText
    /\ out = <<>> /\ errs = <<>> /\ exitCode = NoExit

\* fetch resolved with res.ok
ResponseOk ==
    /\ dstate = "fetch"
    /\ dstate' = "decoding"
    /\ UNCHANGED <<stream, pos, chunks, mainVars, pptxVars, ioVars>>

\* fetch resolved with !res.ok: the error is reported and the process exits
ResponseNotOk ==
    /\ dstate = "fetch"
    /\ dstate' = "failed"
    /\ errs' = Append(errs, "Ollama request failed")
    /\ exitCode' = ExitFailure
    /\ UNCHANGED <<stream, pos, chunks, mainVars, pptxVars, out>>

\* The response body delivers its next n atoms as one chunk
OnChunk ==
    /\ dstate = "decoding"
    /\ \E n \in 1..(Len(stream) - pos) :
        LET chunk == SubSeq(stream, pos + 1, pos + n)
            r == HandleChunk(chunk, out)
        IN /\ pos' = pos + n
           /\ chunks' = Append(chunks, chunk)
           /\ out' = r.out
           /\ dstate' = IF r.done THEN "done" ELSE "decoding"
    /\ UNCHANGED <<stream, mainVars, pptxVars, errs, exitCode>>

\* The end of the stream mutated: a newline is written when the loop exits
OnStreamEndWritesNewline ==
    /\ dstate = "decoding"
    /\ pos = Len(stream)
    /\ dstate' = "ended"
    /\ out' = Append(out, NL)
    /\ UNCHANGED <<stream, pos, chunks, mainVars, pptxVars, errs, exitCode>>

\* The response body ends: the for-await loop exits and callStream returns
OnStreamEnd ==
    /\ dstate = "decoding"
    /\ pos = Len(stream)
    /\ dstate' = "ended"
    /\ UNCHANGED <<stream, pos, chunks, mainVars, pptxVars, ioVars>>

NextStream == ResponseOk \/ ResponseNotOk \/ OnChunk \/ OnStreamEnd

InitStream == InitStreamOf(MaxStreamLen)

SpecStream == InitStream /\ [][NextStream]_vars

InitStreamFair == InitStreamOf(MaxFairStreamLen)

\* The event loop runs every ready continuation and the response body of a
\* finite stream delivers its chunks and then ends.
SpecStreamFair == InitStreamFair /\ [][NextStream]_vars /\ WF_vars(NextStream)

\* ---------------------------------------------------------------- callStream: properties

\* The lines the inner loop has been given so far, chunk after chunk
RECURSIVE SeenLinesOf(_)
SeenLinesOf(cs) ==
    IF cs = <<>> THEN <<>> ELSE ChunkLines(Head(cs)) \o SeenLinesOf(Tail(cs))

SeenLines == SeenLinesOf(chunks)

IsEvent(line) == ParseJSON(line).ok
IsFinalEvent(line) == ParseJSON(line).ok /\ ParseJSON(line).done

\* The lines up to and including the first final event (all of them if none)
RECURSIVE UpToFirstFinal(_)
UpToFirstFinal(lines) ==
    IF lines = <<>> THEN <<>>
    ELSE IF IsFinalEvent(Head(lines)) THEN <<Head(lines)>>
    ELSE <<Head(lines)>> \o UpToFirstFinal(Tail(lines))

\* The non-empty response values of the lines that are JSON objects, in order
RECURSIVE TokensOf(_)
TokensOf(lines) ==
    IF lines = <<>> THEN <<>>
    ELSE (IF IsEvent(Head(lines)) /\ ParseJSON(Head(lines)).response # ""
          THEN <<ParseJSON(Head(lines)).response>> ELSE <<>>)
         \o TokensOf(Tail(lines))

HasFinal(lines) == \E i \in 1..Len(lines) : IsFinalEvent(lines[i])

Written(o, x) == Cardinality({i \in 1..Len(o) : o[i] = x})

Finished == dstate \in {"done", "ended"}

\* The stream is newline-delimited JSON: every non-empty line is a JSON object
IsNDJSON(s) ==
    \A i \in 1..Len(Split(s, NL)) :
        Split(s, NL)[i] = <<>> \/ IsEvent(Split(s, NL)[i])

\* C1: for a newline-delimited JSON stream, when callStream has returned, what
\* it wrote is what it writes when the whole stream arrives as one chunk,
\* however the stream was cut into chunks.
C1_ChunkBoundaryInvariance ==
    (Finished /\ IsNDJSON(stream)) => out = HandleChunk(stream, <<>>).out

\* C2: a line that fails to parse produces no output and no failure and does
\* not stop the decoding: what has been written is exactly what the JSON
\* objects among the lines seen so far produce, up to the first final event,
\* and the final event among them is what ends the decoding.
C2_MalformedLineSkipped ==
    dstate \in {"decoding", "done", "ended"} =>
        /\ exitCode = NoExit
        /\ errs = <<>>
        /\ out = TokensOf(SelectSeq(UpToFirstFinal(SeenLines), IsEvent))
                 \o (IF HasFinal(SeenLines) THEN <<NL>> ELSE <<>>)
        /\ (dstate = "done") = HasFinal(SeenLines)

\* C2 witness: one malformed line then one valid final event with a token were
\* seen, the token and the newline were written, and the state is DONE.
C2_Witness ==
    /\ dstate = "done"
    /\ Len(SeenLines) = 2
    /\ ~IsEvent(SeenLines[1])
    /\ IsFinalEvent(SeenLines[2])
    /\ out = <<ParseJSON(SeenLines[2]).response, NL>>
    /\ exitCode = NoExit

\* C3: once a final event has been decoded exactly one newline has been
\* written, it is the last thing written, nothing of the lines after the final
\* event in the same chunk has been written, and from then on nothing is
\* written and nothing is consumed.
C3_DoneIsTerminal ==
    /\ [](dstate = "done" =>
            /\ Written(out, NL) = 1
            /\ out = TokensOf(UpToFirstFinal(SeenLines)) \o <<NL>>)
    /\ [][dstate = "done" =>
            (out' = out /\ pos' = pos /\ chunks' = chunks /\ dstate' = "done")]_vars

\* C3 witness: DONE was reached with a line after the final event in the same
\* chunk and with bytes of the stream still undelivered.
C3_Witness ==
    /\ dstate = "done"
    /\ pos < Len(stream)
    /\ \E i \in 1..(Len(SeenLines) - 1) : IsFinalEvent(SeenLines[i])

\* C4: for a newline-delimited JSON stream, when callStream has returned, the
\* tokens written are the non-empty response values of the JSON objects of the
\* byte stream up to and including the first final event, in stream order.
C4_TokensInStreamOrder ==
    (Finished /\ IsNDJSON(stream)) =>
        SelectSeq(out, LAMBDA x : x # NL)
            = TokensOf(UpToFirstFinal(Split(stream, NL)))

\* C10: every decoding ends in DONE or in ENDED_INCOMPLETE; it ends in DONE
\* only when a final event was decoded, and ENDED_INCOMPLETE is reached only
\* when the stream ran out without one, with no failure and no newline written.
C10_AlwaysTerminates ==
    /\ [](dstate = "decoding" => <>Finished)
    /\ [](dstate = "done" => HasFinal(SeenLines))
    /\ [](dstate = "ended" =>
            /\ pos = Len(stream)
            /\ ~HasFinal(SeenLines)
            /\ exitCode = NoExit
            /\ errs = <<>>
            /\ Written(out, NL) = 0)

\* C10 witness: the stream ran out after a token was written and no final event
\* was decoded.
C10_Witness ==
    /\ dstate = "ended"
    /\ out # <<>>
    /\ exitCode = NoExit

\* ---------------------------------------------------------------- extractTextFromPptx

DigitChars == <<"0", "1", "2", "3", "4", "5", "6", "7", "8", "9">>
DigitSet == {DigitChars[i] : i \in 1..Len(DigitChars)}
DigitVal(c) == (CHOOSE i \in 1..Len(DigitChars) : DigitChars[i] = c) - 1

\* parseInt(ds, 10) of a string of decimal digits
RECURSIVE ParseIntAcc(_, _)
ParseIntAcc(ds, acc) ==
    IF ds = <<>> THEN acc ELSE ParseIntAcc(Tail(ds), acc * 10 + DigitVal(Head(ds)))

ParseInt(ds) == ParseIntAcc(ds, 0)

\* The decimal digits of a template literal `${n}`
RECURSIVE NatToStr(_)
NatToStr(n) ==
    IF n < 10 THEN <<DigitChars[n + 1]>>
    ELSE NatToStr(n \div 10) \o <<DigitChars[(n % 10) + 1]>>

StartsWith(s, prefix) ==
    Len(s) >= Len(prefix) /\ SubSeq(s, 1, Len(prefix)) = prefix

EndsWith(s, suffix) ==
    Len(s) >= Len(suffix) /\ SubSeq(s, Len(s) - Len(suffix) + 1, Len(s)) = suffix

\* f.path.startsWith('ppt/slides/slide') && f.path.endsWith('.xml')
IsSlidePart(f) ==
    StartsWith(f.path, <<"ppt/slides/", "slide">>) /\ EndsWith(f.path, <<".xml">>)

\* path.match(/slide(\d+)\.xml$/)?.[1] || '0'
SlideSuffix(path) ==
    LET n == Len(path)
        starts == {i \in 1..(n - 2) :
                     /\ path[i] = "slide"
                     /\ path[n] = ".xml"
                     /\ \A j \in (i + 1)..(n - 1) : path[j] \in DigitSet}
    IN IF starts = {} THEN <<"0">>
       ELSE SubSeq(path, (CHOOSE i \in starts : TRUE) + 1, n - 1)

RECURSIVE LexLess(_, _)
LexLess(x, y) ==
    IF y = <<>> THEN FALSE
    ELSE IF x = <<>> THEN TRUE
    ELSE IF Head(x) # Head(y) THEN DigitVal(Head(x)) < DigitVal(Head(y))
    ELSE LexLess(Tail(x), Tail(y))

\* The comparator mutated: the suffixes are compared as strings
SlideBeforeLexicographic(a, b) == LexLess(SlideSuffix(a.path), SlideSuffix(b.path))

\* The sort comparator (a, b) => na - nb is negative
SlideBefore(a, b) == ParseInt(SlideSuffix(a.path)) < ParseInt(SlideSuffix(b.path))

\* Array.prototype.sort with that comparator (a stable sort): x goes after every
\* element that is not after it
RECURSIVE InsertSlide(_, _)
InsertSlide(sorted, x) ==
    IF sorted = <<>> THEN <<x>>
    ELSE IF SlideBefore(x, Head(sorted)) THEN <<x>> \o sorted
    ELSE <<Head(sorted)>> \o InsertSlide(Tail(sorted), x)

RECURSIVE SortSlides(_)
SortSlides(fs) ==
    IF fs = <<>> THEN <<>>
    ELSE InsertSlide(SortSlides(SubSeq(fs, 1, Len(fs) - 1)), fs[Len(fs)])

\* s.replace(/\s+/g, ' ')
RECURSIVE CollapseWhitespace(_)
CollapseWhitespace(s) ==
    IF s = <<>> THEN <<>>
    ELSE IF Head(s) \in Whitespace
    THEN <<SP>> \o CollapseWhitespace(TrimLeft(s))
    ELSE <<Head(s)>> \o CollapseWhitespace(Tail(s))

RECURSIVE NormalizeAll(_)
NormalizeAll(ls) ==
    IF ls = <<>> THEN <<>>
    ELSE <<Trim(CollapseWhitespace(Head(ls)))>> \o NormalizeAll(Tail(ls))

\* lines.map((s) => s.replace(/\s+/g, ' ').trim()).filter(Boolean).join('\n')
SlideText(runs) == Join(FilterBoolean(NormalizeAll(runs)), <<NL>>)

\* `-- Slide ${idx + 1} --\n${text}` for the slide at 1-based position n
SlideBlock(n, f) == <<"-- Slide ">> \o NatToStr(n) \o <<" --", NL>> \o SlideText(f.runs)

RECURSIVE SlideBlocks(_, _)
SlideBlocks(ss, n) ==
    IF ss = <<>> THEN <<>>
    ELSE <<SlideBlock(n, Head(ss))>> \o SlideBlocks(Tail(ss), n + 1)

\* dir.files.filter(...).sort(...)
SortedSlides(files) == SortSlides(SelectSeq(files, IsSlidePart))

\* extractTextFromPptx on an archive whose dir.files is files; runs are the
\* <a:t> values collectText gathers from the member's XML
ExtractTextFromPptx(files) == Join(SlideBlocks(SortedSlides(files), 1), <<NL, NL>>)

Slide(suffix, runs) ==
    [path |-> <<"ppt/slides/", "slide">> \o suffix \o <<".xml">>, runs |-> runs]

S1 == Slide(<<"1">>, << <<"one">> >>)
S2 == Slide(<<"2">>, << <<SP, "two", NL, SP, "b", SP>>, <<SP>>, <<"c">> >>)
S10 == Slide(<<"1", "0">>, << <<"ten">> >>)
S01 == Slide(<<"0", "1">>, << <<"zero-one">> >>)
SA == Slide(<<"A">>, << <<"letter">> >>)
Rels == [path |-> <<"ppt/slides/", "_rels/", "slide", "1", ".xml", ".rels">>,
         runs |-> << <<"rels">> >>]
Pres == [path |-> <<"ppt/", "presentation", ".xml">>, runs |-> << <<"pres">> >>]

ArchiveMembers == {S1, S2, S10, S01, SA, Rels, Pres}

\* The archives: lists of distinct members, in any order
Archives ==
    {a \in UNION {[1..n -> ArchiveMembers] : n \in 0..MaxMembers} :
        \A i, j \in 1..Len(a) : i # j => a[i] # a[j]}

InitPptx ==
    /\ members \in Archives
    /\ slides = <<>>
    /\ pptxOut = NoText
    /\ stream = <<>> /\ pos = 0 /\ chunks = <<>> /\ dstate = "idle"
    /\ args = <<>> /\ pc = "idle" /\ idx = 1 /\ parts = <<>> /\ log = <<>>
    /\ combinedText = <<>> /\ request = NoRequest
    /\ out = <<>> /\ errs = <<>> /\ exitCode = NoExit

\* One call of extractTextFromPptx on the archive
ExtractPptx ==
    /\ pptxOut = NoText
    /\ slides' = SortedSlides(members)
    /\ pptxOut' = ExtractTextFromPptx(members)
    /\ UNCHANGED <<members, streamVars, mainVars, ioVars>>

NextPptx == ExtractPptx

SpecPptx == InitPptx /\ [][NextPptx]_vars

\* The number the member's name carries, read off the name by hand
ExpectedOrdinal(f) ==
    CASE f = S1 -> 1
      [] f = S01 -> 1
      [] f = S2 -> 2
      [] f = S10 -> 10
      [] OTHER -> 0

Returned == pptxOut # NoText

\* C7: the slides of the output are the slide parts of the archive, each once,
\* in ascending order of the number in the member name (an unparsable one
\* counting as 0), so that 1, 2, 10 come out as 1, 2, 10; and the k-th of them
\* is labelled "-- Slide k --".
C7_SlidesInNumericOrder ==
    Returned =>
        /\ Len(slides) = Cardinality({i \in 1..Len(members) : IsSlidePart(members[i])})
        /\ \A i \in 1..Len(members) :
            IsSlidePart(members[i]) => \E k \in 1..Len(slides) : slides[k] = members[i]
        /\ \A i, j \in 1..Len(slides) :
            i < j => ExpectedOrdinal(slides[i]) <= ExpectedOrdinal(slides[j])
        /\ pptxOut = Join([k \in 1..Len(slides) |->
                             <<"-- Slide ">> \o NatToStr(k) \o <<" --", NL>>
                                 \o SlideText(slides[k].runs)],
                          <<NL, NL>>)

\* C7 witness: an archive listing slide10 before slide2 before slide1 has been
\* extracted, and the output has them as slides 1, 2, 3 = slide1, slide2, slide10.
C7_Witness ==
    /\ Returned
    /\ members = <<S10, S2, S1>>
    /\ slides = <<S1, S2, S10>>

\* ---------------------------------------------------------------- command line

Undefined == <<"(undefined)">>

\* A value is falsy when it is undefined or the empty string
Falsy(v) == v = Undefined \/ v = <<>>

\* v || fallback
OrElse(v, fallback) == IF Falsy(v) THEN fallback ELSE v

\* args.indexOf(x), 1-based, 0 when absent
IndexOf(as, x) ==
    IF \E i \in 1..Len(as) : as[i] = x
    THEN CHOOSE i \in 1..Len(as) : as[i] = x /\ \A j \in 1..(i - 1) : as[j] # x
    ELSE 0

\* has(flag)
Has(as, flag) == \E i \in 1..Len(as) : as[i] = flag

\* getArg(flag): the argument after the first occurrence of flag
GetArg(as, flag) ==
    LET i == IndexOf(as, flag)
    IN IF i # 0 /\ i < Len(as) THEN as[i + 1] ELSE Undefined

\* model = getArg('--model') || args[0] || 'mistral'
ModelOf(as) ==
    OrElse(OrElse(GetArg(as, <<"--model">>), IF as = <<>> THEN Undefined ELSE as[1]),
           <<"mistral">>)

\* The loop collecting the value after every --file
RECURSIVE FilesFrom(_, _)
FilesFrom(as, i) ==
    IF i > Len(as) THEN <<>>
    ELSE (IF as[i] = <<"--file">> /\ i + 1 <= Len(as) THEN <<as[i + 1]>> ELSE <<>>)
         \o FilesFrom(as, i + 1)

Files == FilesFrom(args, 1)

\* ---------------------------------------------------------------- the files on disk

FA == <<"a", ".txt">>
FB == <<"docs/", "b", ".DOCX">>
FE == <<"e", ".pdf">>
FM == <<"m", ".docx">>
FC == <<"c", ".pdf">>
FP == <<"s", ".pptx">>
FilePaths == {FA, FB, FE, FM, FC, FP}

Cwd == <<"/cwd/">>
DirAtoms == {"/cwd/", "docs/"}

\* path.resolve(process.cwd(), f) for a relative f
Resolve(f) == Cwd \o f

\* path.basename(abs)
RECURSIVE Basename(_)
Basename(abs) ==
    IF abs # <<>> /\ Head(abs) \in DirAtoms THEN Basename(Tail(abs)) ELSE abs

\* String.prototype.toLowerCase
LowerAtom(a) == IF a = ".DOCX" THEN ".docx" ELSE a
ToLowerCase(s) == [i \in 1..Len(s) |-> LowerAtom(s[i])]

\* fs.existsSync(abs)
ExistsSync(abs) == abs \in {Resolve(f) : f \in FilePaths \ {FM}}

\* The slide deck stored in s.pptx
Deck == <<S10, Rels, S2, SA, S1>>

\* What the library call made for abs yields: the extracted value, or a throw
Thrown == [threw |-> TRUE, text |-> <<>>]
Value(t) == [threw |-> FALSE, text |-> t]

MammothExtractRawText(abs) ==
    IF abs = Resolve(FB) THEN Value(<<"B", NL, NL, "b">>) ELSE Thrown

PdfParse(abs) ==
    IF abs = Resolve(FE) THEN Value(Undefined) ELSE Thrown

ReadFileSync(abs) ==
    IF abs = Resolve(FA) THEN Value(<<"A", NL>>) ELSE Thrown

UnzipperOpen(abs) ==
    IF abs = Resolve(FP) THEN Value(Deck) ELSE Thrown

\* readAsText(abs): dispatch on the lower-cased suffix
ReadAsText(abs) ==
    LET lower == ToLowerCase(abs)
    IN IF EndsWith(lower, <<".docx">>)
       THEN LET r == MammothExtractRawText(abs)
            IN IF r.threw THEN Thrown ELSE Value(OrElse(r.text, <<>>))
       ELSE IF EndsWith(lower, <<".pdf">>)
       THEN LET r == PdfParse(abs)
            IN IF r.threw THEN Thrown ELSE Value(OrElse(r.text, <<>>))
       ELSE IF EndsWith(lower, <<".pptx">>)
       THEN LET r == UnzipperOpen(abs)
            IN IF r.threw THEN Thrown ELSE Value(ExtractTextFromPptx(r.text))
       ELSE ReadFileSync(abs)

\* ---------------------------------------------------------------- readFilesCombined and main

\* parts.push mutated into parts.unshift
PushPartFront(ps, abs, content) ==
    << <<"### ">> \o Basename(abs) \o <<NL>> \o content >> \o ps

\* parts.push(`### ${path.basename(abs)}\n${content}`)
PushPart(ps, abs, content) ==
    Append(ps, <<"### ">> \o Basename(abs) \o <<NL>> \o content)

\* The prompt precedence mutated: positional text wins over the file text
PromptAfterPrecedencePositionalFirst(as, combined) ==
    LET p == GetArg(as, <<"--prompt">>)
    IN IF ~Falsy(p) THEN p
       ELSE IF Len(as) >= 2 THEN Join(Tail(as), <<SP>>)
       ELSE IF Trim(combined) # <<>> THEN combined
       ELSE p

\* Prompt precedence: --prompt > combined file text > positional text after model
PromptAfterPrecedence(as, combined) ==
    LET p == GetArg(as, <<"--prompt">>)
    IN IF ~Falsy(p) THEN p
       ELSE IF Trim(combined) # <<>> THEN combined
       ELSE IF Len(as) >= 2 THEN Join(Tail(as), <<SP>>)
       ELSE p

\* The task, when there is one and there is a prompt, is prepended
FinalPrompt(as, combined) ==
    LET p == PromptAfterPrecedence(as, combined)
        task == GetArg(as, <<"--task">>)
    IN IF ~Falsy(task) /\ ~Falsy(p) THEN Trim(task) \o <<NL, NL>> \o p ELSE p

FileLists ==
    UNION {[1..n -> FilePaths] : n \in 0..MaxFiles}

RECURSIVE FileArgs(_)
FileArgs(fl) ==
    IF fl = <<>> THEN <<>> ELSE << <<"--file">>, Head(fl) >> \o FileArgs(Tail(fl))

\* The command lines: [model [text]] [--model m] {--file f} [--prompt p]
\* [--task t] [--stream]
CommandLines ==
    {positional \o modelArg \o FileArgs(fl) \o promptArg \o taskArg \o streamArg :
        positional \in {<<>>, << <<"llama3">> >>, << <<"llama3">>, <<"hello">> >>},
        modelArg \in {<<>>, << <<"--model">>, <<"phi">> >>},
        fl \in FileLists,
        promptArg \in {<<>>, << <<"--prompt">>, <<>> >>, << <<"--prompt">>, <<"p">> >>},
        taskArg \in {<<>>, << <<"--task">>, <<SP>> >>, << <<"--task">>, <<SP, "t", SP>> >>},
        streamArg \in {<<>>, << <<"--stream">> >>}}

InitMain ==
    /\ args \in CommandLines
    /\ pc = "start"
    /\ idx = 1
    /\ parts = <<>>
    /\ log = <<>>
    /\ combinedText = <<>>
    /\ request = NoRequest
    /\ stream = <<>> /\ pos = 0 /\ chunks = <<>> /\ dstate = "idle"
    /\ members = <<>> /\ slides = <<>> /\ pptxOut = NoText
    /\ out = <<>> /\ errs = <<>> /\ exitCode = NoExit

Event(op, i) == [op |-> op, file |-> i]

\* main: if (files.length > 0) combinedText = await readFilesCombined(files)
MainStart ==
    /\ pc = "start"
    /\ pc' = IF Len(Files) > 0 THEN "loop" ELSE "prompt"
    /\ UNCHANGED <<args, idx, parts, log, combinedText, request, streamVars, pptxVars, ioVars>>

\* The loop body mutated: a missing file is reported and skipped
LoopCheckSkipsMissing ==
    /\ pc = "loop"
    /\ idx <= Len(Files)
    /\ IF ExistsSync(Resolve(Files[idx]))
       THEN /\ log' = log \o <<Event("exists", idx), Event("extract", idx)>>
            /\ pc' = "awaiting"
            /\ UNCHANGED <<errs, exitCode, idx>>
       ELSE /\ log' = Append(log, Event("exists", idx))
            /\ errs' = Append(errs, "File not found")
            /\ idx' = idx + 1
            /\ pc' = "loop"
            /\ UNCHANGED exitCode
    /\ UNCHANGED <<args, parts, combinedText, request, streamVars, pptxVars, out>>

\* readFilesCombined, loop body up to the await: the existence check, and for an
\* existing file the call of readAsText
LoopCheck ==
    /\ pc = "loop"
    /\ idx <= Len(Files)
    /\ IF ExistsSync(Resolve(Files[idx]))
       THEN /\ log' = log \o <<Event("exists", idx), Event("extract", idx)>>
            /\ pc' = "awaiting"
            /\ UNCHANGED <<errs, exitCode>>
       ELSE /\ log' = Append(log, Event("exists", idx))
            /\ errs' = Append(errs, "File not found")
            /\ exitCode' = ExitFailure
            /\ pc' = "exited"
    /\ UNCHANGED <<args, idx, parts, combinedText, request, streamVars, pptxVars, out>>

\* The catch mutated: a file that fails to extract is reported and skipped
ExtractSettledSkipsFailure ==
    /\ pc = "awaiting"
    /\ LET abs == Resolve(Files[idx])
           r == ReadAsText(abs)
       IN IF r.threw
          THEN /\ log' = Append(log, Event("failed", idx))
               /\ errs' = Append(errs, "Failed to read")
               /\ idx' = idx + 1
               /\ pc' = "loop"
               /\ UNCHANGED <<parts, exitCode>>
          ELSE /\ log' = Append(log, Event("extracted", idx))
               /\ parts' = PushPart(parts, abs, r.text)
               /\ idx' = idx + 1
               /\ pc' = "loop"
               /\ UNCHANGED <<errs, exitCode>>
    /\ UNCHANGED <<args, combinedText, request, streamVars, pptxVars, out>>

\* readFilesCombined, loop body after the await: the part is pushed, or the
\* failure is reported and the process exits
ExtractSettled ==
    /\ pc = "awaiting"
    /\ LET abs == Resolve(Files[idx])
           r == ReadAsText(abs)
       IN IF r.threw
          THEN /\ log' = Append(log, Event("failed", idx))
               /\ errs' = Append(errs, "Failed to read")
               /\ exitCode' = ExitFailure
               /\ pc' = "exited"
               /\ UNCHANGED <<parts, idx>>
          ELSE /\ log' = Append(log, Event("extracted", idx))
               /\ parts' = PushPart(parts, abs, r.text)
               /\ idx' = idx + 1
               /\ pc' = "loop"
               /\ UNCHANGED <<errs, exitCode>>
    /\ UNCHANGED <<args, combinedText, request, streamVars, pptxVars, out>>

\* readFilesCombined returns parts.join('\n\n')
LoopReturn ==
    /\ pc = "loop"
    /\ idx > Len(Files)
    /\ combinedText' = Join(parts, <<NL, NL>>)
    /\ pc' = "prompt"
    /\ UNCHANGED <<args, idx, parts, log, request, streamVars, pptxVars, ioVars>>

\* main: no prompt text is found
NoPrompt ==
    /\ pc = "prompt"
    /\ LET p == FinalPrompt(args, combinedText)
       IN Falsy(p) \/ Trim(p) = <<>>
    /\ errs' = Append(errs, "No prompt text found")
    /\ exitCode' = ExitFailure
    /\ pc' = "exited"
    /\ UNCHANGED <<args, idx, parts, log, combinedText, request, streamVars, pptxVars, out>>

\* main: callStream or callOnce issues the POST
SendRequest ==
    /\ pc = "prompt"
    /\ LET p == FinalPrompt(args, combinedText)
       IN /\ ~(Falsy(p) \/ Trim(p) = <<>>)
          /\ request' = [sent |-> TRUE, model |-> ModelOf(args), prompt |-> p,
                         stream |-> Has(args, <<"--stream">>)]
    /\ pc' = "fetching"
    /\ UNCHANGED <<args, idx, parts, log, combinedText, streamVars, pptxVars, ioVars>>

\* fetch rejects: main's catch reports it and exits
FetchThrows ==
    /\ pc = "fetching"
    /\ errs' = Append(errs, "Connection refused")
    /\ exitCode' = ExitFailure
    /\ pc' = "exited"
    /\ UNCHANGED <<args, idx, parts, log, combinedText, request, streamVars, pptxVars, out>>

\* !res.ok
FetchNotOk ==
    /\ pc = "fetching"
    /\ errs' = Append(errs, "Ollama request failed")
    /\ exitCode' = ExitFailure
    /\ pc' = "exited"
    /\ UNCHANGED <<args, idx, parts, log, combinedText, request, streamVars, pptxVars, out>>

\* callOnce: (data.response || '').trim() + '\n' is written
OnceResponded ==
    /\ pc = "fetching"
    /\ ~request.stream
    /\ \E response \in {Undefined, <<SP, "answer", NL>>} :
        out' = Append(out, Trim(OrElse(response, <<>>)) \o <<NL>>)
    /\ pc' = "returned"
    /\ UNCHANGED <<args, idx, parts, log, combinedText, request, streamVars, pptxVars,
                   errs, exitCode>>

\* callStream: the response body is handed to the for-await loop
StreamResponded ==
    /\ pc = "fetching"
    /\ request.stream
    /\ pc' = "streaming"
    /\ UNCHANGED <<args, idx, parts, log, combinedText, request, streamVars, pptxVars, ioVars>>

NextMain ==
    \/ MainStart
    \/ LoopCheck
    \/ ExtractSettled
    \/ LoopReturn
    \/ NoPrompt
    \/ SendRequest
    \/ FetchThrows
    \/ FetchNotOk
    \/ OnceResponded
    \/ StreamResponded

SpecMain == InitMain /\ [][NextMain]_vars

\* ---------------------------------------------------------------- readFilesCombined and main: properties

\* The files that are missing (m.docx) or fail to extract (c.pdf)
BadFile(f) == f \in {FM, FC}

SomeFileBad == \E i \in 1..Len(Files) : BadFile(Files[i])

\* The base name and the extracted body of each readable file, written out
ExpectedName(f) ==
    CASE f = FA -> <<"a", ".txt">>
      [] f = FB -> <<"b", ".DOCX">>
      [] f = FE -> <<"e", ".pdf">>
      [] f = FP -> <<"s", ".pptx">>

ExpectedBody(f) ==
    CASE f = FA -> <<"A", NL>>
      [] f = FB -> <<"B", NL, NL, "b">>
      [] f = FE -> <<>>
      [] f = FP -> <<"-- Slide ", "1", " --", NL, "letter", NL, NL,
                     "-- Slide ", "2", " --", NL, "one", NL, NL,
                     "-- Slide ", "3", " --", NL, "two", SP, "b", NL, "c", NL, NL,
                     "-- Slide ", "4", " --", NL, "ten">>

ReadFilesReturned == pc \in {"prompt", "fetching", "streaming", "returned"}

\* C5: when some file of the batch is missing or fails to extract, no request is
\* ever sent, main never gets past readFilesCombined, and the process exit is
\* the failure exit.
C5_NoRequestAfterFileFailure ==
    SomeFileBad =>
        /\ ~request.sent
        /\ ~ReadFilesReturned
        /\ (pc = "exited" => exitCode = ExitFailure)

\* C5 witness: the run has ended on a bad file after another file was read, with
\* no request sent.
C5_Witness ==
    /\ pc = "exited"
    /\ idx > 1
    /\ idx <= Len(Files)
    /\ BadFile(Files[idx])
    /\ Len(parts) = idx - 1
    /\ ~request.sent
    /\ exitCode = ExitFailure

\* What readFilesCombined does to the files from the i-th on, in order: check,
\* start the extraction, finish it, and stop at the first file that is missing
\* or fails
RECURSIVE ExpectedLog(_, _)
ExpectedLog(fl, i) ==
    IF i > Len(fl) THEN <<>>
    ELSE IF fl[i] = FM THEN <<Event("exists", i)>>
    ELSE IF fl[i] = FC
    THEN <<Event("exists", i), Event("extract", i), Event("failed", i)>>
    ELSE <<Event("exists", i), Event("extract", i), Event("extracted", i)>>
         \o ExpectedLog(fl, i + 1)

IsPrefix(s, t) == Len(s) <= Len(t) /\ SubSeq(t, 1, Len(s)) = s

\* C6: the existence checks and extractions happen file by file in input order,
\* each file's extraction finished before the next file's check, and nothing is
\* checked or extracted after the first file that is missing or fails, where
\* the process exits.
C6_FilesInOrderOneAtATime ==
    /\ IsPrefix(log, ExpectedLog(Files, 1))
    /\ (pc \notin {"start", "loop", "awaiting"} => log = ExpectedLog(Files, 1))
    /\ (SomeFileBad /\ log = ExpectedLog(Files, 1) => pc = "exited")

\* C6 witness: the run has ended on a file that is not the last one, and the
\* log ends with that file.
C6_Witness ==
    /\ pc = "exited"
    /\ idx < Len(Files)
    /\ BadFile(Files[idx])
    /\ log[Len(log)].file = idx

\* C8: what readFilesCombined returns for readable files is one block
\* "### <base name>\n<body>" per file, in input order, with one blank line
\* between blocks.
C8_OneBlockPerFileInOrder ==
    (ReadFilesReturned /\ Files # <<>>) =>
        combinedText = Join([i \in 1..Len(Files) |->
                               <<"### ">> \o ExpectedName(Files[i]) \o <<NL>>
                                   \o ExpectedBody(Files[i])],
                            <<NL, NL>>)

\* C8 witness: readFilesCombined has returned for two different files.
C8_Witness ==
    /\ pc = "prompt"
    /\ Len(Files) >= 2
    /\ Files[1] # Files[2]
    /\ combinedText # <<>>

NoPromptGiven == ~Has(args, <<"--prompt">>)

\* C9 as claimed: with files and no --prompt, the prompt of the request is
\* exactly the combined text, whatever the other options.
C9_PromptIsCombinedText ==
    (request.sent /\ Files # <<>> /\ NoPromptGiven) => request.prompt = combinedText

\* C9 amended: with files and no --prompt, the prompt of the request is the
\* combined text, preceded by the trimmed task and a blank line when a
\* non-empty --task value is given; positional arguments do not change it.
C9_PromptIsTaskThenCombinedText ==
    (request.sent /\ Files # <<>> /\ NoPromptGiven) =>
        request.prompt =
            IF Has(args, <<"--task">>) /\ GetArg(args, <<"--task">>) # <<>>
               /\ GetArg(args, <<"--task">>) # Undefined
            THEN Trim(GetArg(args, <<"--task">>)) \o <<NL, NL>> \o combinedText
            ELSE combinedText

\* C9 witness: a request was sent for a command line with positional text, a
\* file, a task and no --prompt.
C9_Witness ==
    /\ request.sent
    /\ Files # <<>>
    /\ NoPromptGiven
    /\ args[2] = <<"hello">>
    /\ GetArg(args, <<"--task">>) = <<SP, "t", SP>>
    /\ request.prompt = <<"t", NL, NL>> \o combinedText

====
